---- MODULE Spec2Model ----
(***************************************************************************)
(* A model of mk12/parse (src/parse.go):                                   *)
(*   - tokenize, the word tokenizer, run one loop iteration per step on a  *)
(*     byte buffer that it compacts in place;                              *)
(*   - the line scanner: a bufio.Scanner over lineReader, split by         *)
(*     scanLines;                                                          *)
(*   - Main, mapLines and apply: a process that takes its arguments from   *)
(*     the command line or from the lines of standard input, parses them   *)
(*     and passes them to the program's function;                          *)
(* and of the C implementation (src/simpleio.c): simple_fgetline,          *)
(* split_words, foreach_line and the dispatch of sio_main.                 *)
(* Bytes are the integers 0..255. A []byte is a sequence of bytes; Go's    *)
(* 0-based index k is element k+1 of the sequence.                         *)
(***************************************************************************)
EXTENDS Integers, Sequences, FiniteSets, TLC

VARIABLES
    input,   \* tokenize: the bytes of the line as passed in (before compaction)
    tz,      \* tokenize: the function's locals, the buffer `data` among them
    stream,  \* line scanner: the bytes of the source reader, as a whole
    sc,      \* line scanner: the bufio.Scanner's state and what it has emitted
    mode,    \* which of the programs this behaviour runs
    mn,      \* Main: the process that called it, what it printed and passed on
    fg       \* simple_fgetline: a call's arguments and locals, and its stores

vars == <<input, tz, stream, sc, mode, mn, fg>>

----------------------------------------------------------------------------
(* Bytes *)

BS == 92
SQ == 39
DQ == 34
NL == 10
CR == 13
SP == 32

\* unicode.IsSpace on a rune below U+0100: \t \n \v \f \r, space, U+0085, U+00A0.
IsSpace(c) == c \in {9, 10, 11, 12, 13, 32, 133, 160}

IsQuoteChar(c) == c = SQ \/ c = DQ

----------------------------------------------------------------------------
(* Bounds and inputs *)

MaxLen == 5
MaxStream == 5
MaxFairStream == 3

MaxParsers == 2
MaxArgs == 2
MaxStdin == 3
MaxFgLen == 3
MaxFgSize == 3

SeqsUpTo(S, n) == UNION {[1..k -> S] : k \in 0..n}

\* Letters, one whitespace byte, both quotes, the backslash.
TokAlphabet == {97, 98, SP, SQ, DQ, BS}

\* The inputs of tokenizeTests, the lines quoted in the specification, and a
\* line with every whitespace byte of unicode.IsSpace.
TokExamples ==
    { <<111,110,101,32,116,119,111,32,51,32,52,32,53>>,
      <<9,97,10,98,13,99,92,32,99,92,32,99,32,39,39,32,34,100,32,92,34,100,32,100,34>>,
      <<39,34,39,39,34,39,32,34,39,34,92,32,97,98,99,120,121,122,92,32,34,39,34,
        32,32,32,39,32,32,39,32,92,92>>,
      <<92,97,92,98,92,99,92,32,49,32,92,32,32,92,32,39,32,39,92,92>>,
      <<39,32,9,32,34,32,97,98,32,122,49,32,92,39>>,
      <<39,32,97,98,49,32,91,122,93,32,92,39,92,39,32,52>>,
      <<97,39,98,32,99,39,100>>,
      <<120,39,39,121>>,
      <<34,97,32,39,98,34>>,
      <<49,32,50,32,51>>,
      <<9,97,10,32,98,13,11,12,133,160,99>> }

TokInputs == SeqsUpTo(TokAlphabet, MaxLen) \cup TokExamples

----------------------------------------------------------------------------
(* tokenize *)

\* Mutant of NextEscaped: every backslash escapes, an escaped one too.
NextEscapedNoToggle(escaped, c) == c = BS

\* escaped = !escaped && c == '\\'
NextEscaped(escaped, c) == ~escaped /\ c = BS

\* if !escaped { if quote == 0 { if c == '\'' || c == '"' { quote = c; del = true } ...
OpensQuote(escaped, quote, c) == ~escaped /\ quote = 0 /\ IsQuoteChar(c)

\* Mutant of ClosesQuote: a quote of either kind closes the open region.
ClosesQuoteAnyKind(escaped, quote, c) == ~escaped /\ quote # 0 /\ IsQuoteChar(c)

\* if !escaped { if quote == 0 {...} else if c == quote { quote = 0; del = true } }
ClosesQuote(escaped, quote, c) == ~escaped /\ quote # 0 /\ c = quote

\* Mutant of StartsToken: wasSpace is not consulted.
StartsTokenEveryByte(escaped, quote, wasSpace, c) ==
    ~escaped /\ quote = 0 /\ ~IsSpace(c)

\* Mutant of StartsToken: an opening quote does not start a token.
StartsTokenNotOnQuote(escaped, quote, wasSpace, c) ==
    ~escaped /\ quote = 0 /\ wasSpace /\ ~IsSpace(c) /\ ~IsQuoteChar(c)

\* if wasSpace && !space { start = i - shift }, reached only unescaped and unquoted
StartsToken(escaped, quote, wasSpace, c) ==
    ~escaped /\ quote = 0 /\ wasSpace /\ ~IsSpace(c)

\* Mutant of EndsToken: the quote state is not consulted.
EndsTokenInQuotes(escaped, quote, wasSpace, c) ==
    ~escaped /\ ~wasSpace /\ IsSpace(c)

\* else if !wasSpace && space { tokens = append(...); start = -1 }
EndsToken(escaped, quote, wasSpace, c) ==
    ~escaped /\ quote = 0 /\ ~wasSpace /\ IsSpace(c)

\* countMaxTokens: the loop, on the bytes of data not yet seen.
RECURSIVE countMaxTokensLoop(_, _, _)
countMaxTokensLoop(data, n, wasSpace) ==
    IF data = <<>> THEN n
    ELSE LET space == IsSpace(Head(data))
         IN  countMaxTokensLoop(Tail(data),
                                IF wasSpace /\ ~space THEN n + 1 ELSE n, space)

\* Mutant of countMaxTokens: wasSpace starts false, so a word at the very
\* beginning of data is not counted.
countMaxTokensNotFirst(data) == countMaxTokensLoop(data, 0, FALSE)

\* countMaxTokens(data): the capacity tokenize allocates for its token list.
countMaxTokens(data) == countMaxTokensLoop(data, 0, TRUE)

\* The locals of tokenize on entry to the loop.
tokenizeEntry(data) ==
    [ data     |-> data,
      i        |-> 0,
      shift    |-> 0,
      start    |-> -1,
      wasSpace |-> TRUE,
      escaped  |-> FALSE,
      quote    |-> 0,
      tokens   |-> <<>>,
      pc       |-> "loop" ]

\* A slice expression data[lo:hi] panics unless 0 <= lo <= hi <= cap(data).
SliceInRange(lo, hi, cap) == 0 <= lo /\ lo <= hi /\ hi <= cap

\* An index expression data[k] panics unless 0 <= k < len(data).
IndexInRange(k, len) == 0 <= k /\ k < len

\* Mutant of WriteIndex: deleted bytes do not move the write position.
WriteIndexNoShift(st) == st.i

\* The index i - shift at which the iteration stores a kept byte and at which
\* a token starts or ends.
WriteIndex(st) == st.i - st.shift

\* One iteration of `for i, c := range data`. A token is the slice
\* data[lo:hi] of the shared buffer, kept here as its two indices.
tokenizeIteration(st) ==
    LET c      == st.data[st.i + 1]
        opens  == OpensQuote(st.escaped, st.quote, c)
        closes == ClosesQuote(st.escaped, st.quote, c)
        begins == StartsToken(st.escaped, st.quote, st.wasSpace, c)
        ends   == EndsToken(st.escaped, st.quote, st.wasSpace, c)
        esc    == NextEscaped(st.escaped, c)
        drop   == esc \/ opens \/ closes
        w      == WriteIndex(st)
    IN  [ data     |-> IF drop THEN st.data ELSE [st.data EXCEPT ![w + 1] = c],
          i        |-> st.i + 1,
          shift    |-> IF drop THEN st.shift + 1 ELSE st.shift,
          start    |-> IF begins THEN w ELSE IF ends THEN -1 ELSE st.start,
          wasSpace |-> IF ~st.escaped /\ st.quote = 0 THEN IsSpace(c) ELSE st.wasSpace,
          escaped  |-> esc,
          quote    |-> IF opens THEN c ELSE IF closes THEN 0 ELSE st.quote,
          tokens   |-> IF ends
                       THEN Append(st.tokens, [lo |-> st.start, hi |-> w])
                       ELSE st.tokens,
          pc       |-> "loop" ]

\* The iteration, or the run-time panic of its slice or index expression.
tokenizeStep(st) ==
    LET c    == st.data[st.i + 1]
        w    == WriteIndex(st)
        ends == EndsToken(st.escaped, st.quote, st.wasSpace, c)
        drop == \/ NextEscaped(st.escaped, c)
                \/ OpensQuote(st.escaped, st.quote, c)
                \/ ClosesQuote(st.escaped, st.quote, c)
    IN  IF \/ ends /\ ~SliceInRange(st.start, w, Len(st.data))
           \/ ~drop /\ ~IndexInRange(w, Len(st.data))
        THEN [st EXCEPT !.pc = "panic"]
        ELSE tokenizeIteration(st)

\* Mutant of tokenizeReturn: the final word is not appended.
tokenizeReturnNoFinalWord(st) == [st EXCEPT !.pc = "done"]

\* After the loop: the final word with no space after it, then return.
tokenizeReturn(st) ==
    IF st.start # -1
    THEN IF SliceInRange(st.start, Len(st.data) - st.shift, Len(st.data))
         THEN [ st EXCEPT
                  !.tokens = Append(st.tokens,
                                    [lo |-> st.start, hi |-> Len(st.data) - st.shift]),
                  !.pc = "done" ]
         ELSE [st EXCEPT !.pc = "panic"]
    ELSE [st EXCEPT !.pc = "done"]

RECURSIVE tokenizeRun(_)
tokenizeRun(st) ==
    IF st.pc # "loop" THEN st
    ELSE IF st.i < Len(st.data) THEN tokenizeRun(tokenizeStep(st))
    ELSE tokenizeReturn(st)

\* The bytes of the slices of a returned token list: tokenList.strings().
TokenStrings(st) ==
    [k \in 1..Len(st.tokens) |-> SubSeq(st.data, st.tokens[k].lo + 1, st.tokens[k].hi)]

\* tokenize(data).strings() as a function of the line.
tokenize(data) == TokenStrings(tokenizeRun(tokenizeEntry(data)))

----------------------------------------------------------------------------
(* The line scanner: lineReader, dropCR, scanLines, and the bufio.Scanner  *)
(* that newLineScanner builds from them                                    *)

\* Stream bytes: a letter, the newline, the carriage return, both quotes, the
\* backslash.
ScanAlphabet == {120, NL, CR, SQ, DQ, BS}

\* The inputs of scanTests, and the streams quoted in the specification.
ScanExamples ==
    { <<10,10,32>>,
      <<97,98,99,120,121,122,10>>,
      <<65,98,67,49,50,51,92,10,46,46,46>>,
      <<33,64,35,36,59,92,92,10,116,101,115,116>>,
      <<84,69,83,84,92,92,92,10,49,50,51>>,
      <<104,101,39,108,108,111,10,104,101,108,108,111,39,49,10,97,98,99,92,39,10,32>>,
      <<97,34,10,34,39,97>>,
      <<120,10,10,121,10>>,
      <<97,92,10,98,10>>,
      <<39,97,10,98,39,10>>,
      <<49,32,50,32,51,10>> }

ScanInputs == SeqsUpTo(ScanAlphabet, MaxStream) \cup ScanExamples

\* Longer streams for the runs under fairness.
FairExamples ==
    { <<NL, SQ, NL, SQ, NL>>,
      <<120, NL, NL, 121, NL>>,
      <<97, BS, NL, 98, NL>>,
      <<97, DQ, NL, DQ, SQ, 97>> }

\* lineReader.Read, one iteration of its loop over data[:n]; n0 is the n the
\* source returned, which bounds the range loop.
lineReaderIteration(r) ==
    LET c == r.data[r.i + 1]
    IN  IF r.escaped /\ c = NL
        THEN [r EXCEPT !.shift = r.shift + 2, !.n = r.n - 2,
                       !.escaped = FALSE, !.i = r.i + 1]
        ELSE [r EXCEPT !.data[r.i - r.shift + 1] = c,
                       !.escaped = ~r.escaped /\ c = BS, !.i = r.i + 1]

RECURSIVE lineReaderLoop(_, _)
lineReaderLoop(r, n0) ==
    IF r.i < n0 THEN lineReaderLoop(lineReaderIteration(r), n0) ELSE r

\* lineReader.Read when the source put the bytes `chunk` into data[:n]: the
\* bytes data[:n] that the caller is told to use.
lineReaderRead(chunk) ==
    LET r == lineReaderLoop([data |-> chunk, i |-> 0, shift |-> 0,
                             n |-> Len(chunk), escaped |-> FALSE], Len(chunk))
    IN  SubSeq(r.data, 1, r.n)

\* Mutant of dropCR: every terminal carriage return is dropped.
RECURSIVE dropCRAll(_)
dropCRAll(data) ==
    IF Len(data) > 0 /\ data[Len(data)] = CR
    THEN dropCRAll(SubSeq(data, 1, Len(data) - 1))
    ELSE data

\* dropCR drops a terminal carriage return from the data.
dropCR(data) ==
    IF Len(data) > 0 /\ data[Len(data)] = CR
    THEN SubSeq(data, 1, Len(data) - 1)
    ELSE data

\* Mutant of scanQuote: a quote of either kind closes the open quote.
scanQuoteAnyKindCloses(escaped, quote, c) ==
    IF quote = 0
    THEN IF ~escaped /\ IsQuoteChar(c) THEN c ELSE 0
    ELSE IF ~escaped /\ IsQuoteChar(c) THEN 0 ELSE quote

\* scanLines: the quote after byte c.
scanQuote(escaped, quote, c) ==
    IF quote = 0
    THEN IF ~escaped /\ IsQuoteChar(c) THEN c ELSE 0
    ELSE IF ~escaped /\ c = quote THEN 0 ELSE quote

\* Mutant of scanEscaped: escaped = c == '\\', without the toggle.
scanEscapedNoToggle(escaped, c) == c = BS

\* scanLines: escaped = !escaped && c == '\\'
scanEscaped(escaped, c) == ~escaped /\ c = BS

\* scanLines: the loop. The Go index of the newline it returns at, -1 when it
\* runs off the end of data.
RECURSIVE scanLinesLoop(_, _, _, _)
scanLinesLoop(data, i, escaped, quote) ==
    IF i >= Len(data) THEN -1
    ELSE IF quote = 0 /\ data[i + 1] = NL THEN i
    ELSE scanLinesLoop(data, i + 1, scanEscaped(escaped, data[i + 1]),
                       scanQuote(escaped, quote, data[i + 1]))

\* scanLines(data, atEOF): (advance, token, nil); some = FALSE is a nil token.
NoToken == [advance |-> 0, token |-> <<>>, some |-> FALSE]

\* Mutant of scanLines: no final, non-terminated line at EOF.
scanLinesNoFinalLine(data, atEOF) ==
    IF atEOF /\ Len(data) = 0 THEN NoToken
    ELSE LET i == scanLinesLoop(data, 0, FALSE, 0)
         IN  IF i # -1
             THEN [advance |-> i + 1, token |-> dropCR(SubSeq(data, 1, i)),
                   some |-> TRUE]
             ELSE NoToken

\* Mutant of scanLines: the final line at EOF is returned without advancing.
scanLinesNoAdvanceAtEOF(data, atEOF) ==
    IF atEOF /\ Len(data) = 0 THEN NoToken
    ELSE LET i == scanLinesLoop(data, 0, FALSE, 0)
         IN  IF i # -1
             THEN [advance |-> i + 1, token |-> dropCR(SubSeq(data, 1, i)),
                   some |-> TRUE]
             ELSE IF atEOF
             THEN [advance |-> 0, token |-> dropCR(data), some |-> TRUE]
             ELSE NoToken

scanLines(data, atEOF) ==
    IF atEOF /\ Len(data) = 0 THEN NoToken
    ELSE LET i == scanLinesLoop(data, 0, FALSE, 0)
         IN  IF i # -1
             THEN [advance |-> i + 1, token |-> dropCR(SubSeq(data, 1, i)),
                   some |-> TRUE]
             ELSE IF atEOF
             THEN [advance |-> Len(data), token |-> dropCR(data), some |-> TRUE]
             ELSE NoToken

\* The scanner of newLineScanner(r) before the first Scan.
\*   rest     the bytes the source reader has not returned yet
\*   buf      s.buf[s.start:s.end], the bytes read and not yet consumed
\*   eof      the source has returned io.EOF
\*   lines    the tokens returned by the Scan calls so far
\*   advances the advance of each of these tokens
\*   fed      all that lineReader.Read has handed to the scanner
\*   reads    the number of Reads in which the source returned bytes
newLineScanner(r) ==
    [ pc       |-> "scan",
      rest     |-> r,
      buf      |-> <<>>,
      eof      |-> FALSE,
      lines    |-> <<>>,
      advances |-> <<>>,
      fed      |-> <<>>,
      reads    |-> 0 ]

\* Scan calls the split function when it holds data or has seen the end.
SplitResult(s) ==
    IF Len(s.buf) > 0 \/ s.eof THEN scanLines(s.buf, s.eof) ELSE NoToken

\* Scan returns true with a token.
scanToken(s) ==
    LET r == SplitResult(s)
    IN  [s EXCEPT !.lines = Append(s.lines, r.token),
                  !.advances = Append(s.advances, r.advance),
                  !.buf = SubSeq(s.buf, r.advance + 1, Len(s.buf))]

\* Scan reads more: the source returns the next n bytes through lineReader.
scanRead(s, n) ==
    LET chunk == SubSeq(s.rest, 1, n)
        got   == lineReaderRead(chunk)
    IN  [s EXCEPT !.rest = SubSeq(s.rest, n + 1, Len(s.rest)),
                  !.buf = s.buf \o got,
                  !.fed = s.fed \o got,
                  !.reads = s.reads + 1]

----------------------------------------------------------------------------
(* simpleio.c: simple_fgetline, the line reader of the C implementation    *)

\* The locals of simple_fgetline before its loop: the bytes buf[0..i), the
\* int previous and the int quote (-1: none), and whether the loop has broken.
fgetlineEntry == [buf |-> <<>>, previous |-> -1, quote |-> -1, brk |-> FALSE]

\* One iteration of `while (c != EOF)` on the byte c that getc returned.
fgetlineIteration(f, c) ==
    LET stored == Append(f.buf, c)
        prev   == IF f.previous = BS /\ c = BS THEN -1 ELSE c
    IN  IF f.previous = BS /\ c = NL
        THEN [f EXCEPT !.buf = SubSeq(stored, 1, Len(stored) - 2), !.previous = prev]
        ELSE IF f.quote = -1
        THEN IF c = NL
             THEN [f EXCEPT !.buf = stored, !.brk = TRUE]
             ELSE [f EXCEPT !.buf = stored, !.previous = prev,
                            !.quote = IF f.previous # BS /\ IsQuoteChar(c)
                                      THEN c ELSE -1]
        ELSE [f EXCEPT !.buf = stored, !.previous = prev,
                       !.quote = IF f.previous # BS /\ c = f.quote
                                 THEN -1 ELSE f.quote]

RECURSIVE fgetlineLoop(_, _)
fgetlineLoop(f, rest) ==
    IF rest = <<>> \/ f.brk THEN [line |-> f.buf, rest |-> rest]
    ELSE fgetlineLoop(fgetlineIteration(f, Head(rest)), Tail(rest))

\* simple_fgetline on a stream with the bytes `rest` unread: the line left in
\* the buffer (its length is the return value) and the bytes still unread.
simple_fgetline(rest) == fgetlineLoop(fgetlineEntry, rest)

\* The lines that foreach_line gets: calls until one returns 0.
RECURSIVE fgetlineAll(_)
fgetlineAll(rest) ==
    LET r == simple_fgetline(rest)
    IN  IF Len(r.line) = 0 THEN <<>> ELSE <<r.line>> \o fgetlineAll(r.rest)

----------------------------------------------------------------------------
(* simpleio.c: simple_fgetline with its buffer, one store at a time        *)

\* const size_t block_size = 128, and MAX_BUFSIZE of foreach_line.
block_size == 128
MAX_BUFSIZE == 1024

\* getc(stream): the next byte, or EOF (-1).
getc(rest) == IF rest = <<>> THEN -1 ELSE Head(rest)

\* A call simple_fgetline(&buf, &bufsize, stream): *lineptr is "NULL" or
\* "buf", a buffer of *size bytes; asserts tells whether the build has its
\* assertions (NDEBUG not defined). stored is the index of the last store into
\* the buffer and cap the size of the buffer at that store.
fgetlineCall(lineptr, size, rest, asserts) ==
    [ pc      |-> "entry",
      asserts |-> asserts,
      lineptr |-> lineptr,
      size    |-> size,
      arg     |-> [lineptr |-> lineptr, size |-> size],
      rest    |-> rest,
      c       |-> -1,
      f       |-> fgetlineEntry,
      bufsize |-> 0,
      stored  |-> -1,
      cap     |-> 0,
      ret     |-> -1 ]

\* The assertions, the first getc with its early return, and the choice of
\* the buffer.
fgetlineEnter(g) ==
    IF g.asserts /\ ~(g.size > 1)
    THEN [g EXCEPT !.pc = "aborted"]
    ELSE IF getc(g.rest) = -1
    THEN [g EXCEPT !.pc = "returned", !.ret = 0]
    ELSE [g EXCEPT !.pc = "loop",
                   !.c = getc(g.rest),
                   !.rest = Tail(g.rest),
                   !.bufsize = IF g.lineptr # "NULL" THEN g.size ELSE block_size]

\* One iteration of `while (c != EOF)`: the buffer grows when i == bufsize,
\* buf[i++] = c, the state of fgetlineIteration, and the next getc unless the
\* loop breaks.
fgetlineStore(g) ==
    LET i     == Len(g.f.buf)
        grown == IF i = g.bufsize THEN g.bufsize + block_size ELSE g.bufsize
        f2    == fgetlineIteration(g.f, g.c)
    IN  [g EXCEPT !.bufsize = grown,
                  !.stored = i,
                  !.cap = grown,
                  !.f = f2,
                  !.c = IF f2.brk THEN g.c ELSE getc(g.rest),
                  !.rest = IF f2.brk \/ g.rest = <<>> THEN g.rest ELSE Tail(g.rest)]

\* After the loop: buf[i] = '\0', *lineptr = buf, *size = bufsize, return i.
\* A store at i = bufsize is outside the buffer, which is undefined: the call
\* returns all the same, or the process dies of the damaged heap.
fgetlineReturn(g, outcome) ==
    LET i == Len(g.f.buf)
    IN  [g EXCEPT !.stored = i,
                  !.cap = g.bufsize,
                  !.lineptr = "buf",
                  !.size = g.bufsize,
                  !.ret = i,
                  !.pc = IF i < g.bufsize THEN "returned" ELSE outcome]

\* The loop of foreach_line calls again with the buffer it was given back,
\* or without one when the buffer had grown beyond MAX_BUFSIZE.
foreachLineNextCall(g) ==
    fgetlineCall(IF g.size > MAX_BUFSIZE THEN "NULL" ELSE g.lineptr,
                 g.size, g.rest, g.asserts)

----------------------------------------------------------------------------
(* simpleio.c: split_words, sio_parse_int and foreach_line                 *)

\* isspace in the C locale.
isspace(c) == c \in {9, 10, 11, 12, 13, 32}

\* The locals of split_words before its loop, on a line without a zero byte:
\* the buffer with its terminating zero, the position of str in it, the
\* offsets of the word pointers stored so far, previous, quote (-1: none),
\* shift, and status.
splitWordsEntry(line) ==
    [ str      |-> line \o <<0>>,
      pos      |-> 0,
      words    |-> <<>>,
      previous |-> -1,
      quote    |-> -1,
      shift    |-> 0,
      status   |-> "WHITE" ]

\* One iteration of `while (*str)`.
splitWordsIteration(w) ==
    LET c       == w.str[w.pos + 1]
        prevbs  == w.previous = BS
        prev    == IF c = BS /\ prevbs THEN -1 ELSE c
        free    == ~prevbs /\ w.quote = -1
        ends    == free /\ w.status = "WORD" /\ isspace(c)
        opens   == free /\ ~ends /\ IsQuoteChar(c)
        starts  == free /\ ~ends /\ w.status = "WHITE" /\ ~isspace(c)
        closes  == ~prevbs /\ w.quote # -1 /\ w.quote = c
        delete  == (c = BS /\ ~prevbs) \/ opens \/ closes
        written == IF ends THEN 0 ELSE c
    IN  [w EXCEPT !.previous = prev,
                  !.status = IF ends THEN "WHITE"
                             ELSE IF starts THEN "WORD" ELSE w.status,
                  !.quote = IF opens THEN c ELSE IF closes THEN -1 ELSE w.quote,
                  !.words = IF starts THEN Append(w.words, w.pos - w.shift)
                            ELSE w.words,
                  !.shift = IF delete THEN w.shift + 1 ELSE w.shift,
                  !.str = IF delete THEN w.str
                          ELSE [[w.str EXCEPT ![w.pos + 1] = written]
                                   EXCEPT ![w.pos - w.shift + 1] = written],
                  !.pos = w.pos + 1]

RECURSIVE splitWordsLoop(_)
splitWordsLoop(w) ==
    IF w.str[w.pos + 1] = 0 THEN [w EXCEPT !.str[w.pos - w.shift + 1] = 0]
    ELSE splitWordsLoop(splitWordsIteration(w))

\* The C string that starts at offset k of the buffer.
RECURSIVE CString(_, _)
CString(buf, k) ==
    IF buf[k + 1] = 0 THEN <<>> ELSE <<buf[k + 1]>> \o CString(buf, k + 1)

\* split_words(&words, &len, str): the words it leaves in words[0..nwords).
split_words(line) ==
    LET w == splitWordsLoop(splitWordsEntry(line))
    IN  [k \in 1..Len(w.words) |-> CString(w.str, w.words[k])]

\* Integers beyond the range of the checker's own, as their decimal digits,
\* least significant first and without leading zeros (zero is the empty
\* list): n * b + d, the order, and the powers of two.
RECURSIVE MulAdd(_, _, _)
MulAdd(n, b, d) ==
    IF n = <<>>
    THEN (IF d = 0 THEN <<>> ELSE <<d % 10>> \o MulAdd(<<>>, b, d \div 10))
    ELSE <<(Head(n) * b + d) % 10>> \o MulAdd(Tail(n), b, (Head(n) * b + d) \div 10)

Less(m, n) ==
    \/ Len(m) < Len(n)
    \/ /\ Len(m) = Len(n)
       /\ \E k \in 1..Len(m) :
             m[k] < n[k] /\ \A j \in (k + 1)..Len(m) : m[j] = n[j]

RECURSIVE TwoTo(_)
TwoTo(k) == IF k < 8 THEN MulAdd(<<>>, 1, 2^k) ELSE MulAdd(TwoTo(k - 8), 2^8, 0)

\* INT_MAX + 1 of C, and the limits of a uint64 and an int64 of Go.
IntLimit == TwoTo(31)
Uint64Limit == TwoTo(64)

\* c | ('x' - 'X'), the lower of strconv, and the value of a byte as a digit:
\* 0..9, a..z and A..Z as 10..35; any other byte is a digit of no base and
\* gets 36.
lower(c) == IF (c \div 32) % 2 = 0 THEN c + 32 ELSE c
DigitOf(c) ==
    IF c \in 48..57 THEN c - 48
    ELSE IF lower(c) \in 97..122 THEN lower(c) - 87
    ELSE 36

\* The number that the digits of s denote in the given base.
RECURSIVE NumberOf(_, _)
NumberOf(s, base) ==
    IF s = <<>> THEN <<>>
    ELSE MulAdd(NumberOf(SubSeq(s, 1, Len(s) - 1), base), base, DigitOf(s[Len(s)]))

\* sio_parse_int(&x, s): 0 on success, 1 on failure. strtol(s, &end, 0) skips
\* leading white space and an optional sign, takes 0x or 0X before a
\* hexadecimal digit as base 16, a leading 0 as base 8 and base 10 otherwise,
\* and stops at the first byte that is no digit of the base. The string is
\* rejected when it is empty or end is not at its terminating zero (no digit
\* at all leaves end at s), and when the value, a long of 64 bits, is not an
\* int of 32 bits.
RECURSIVE SkipSpace(_)
SkipSpace(s) == IF s # <<>> /\ isspace(Head(s)) THEN SkipSpace(Tail(s)) ELSE s

sio_parse_int(s) ==
    LET t      == SkipSpace(s)
        neg    == t # <<>> /\ Head(t) = 45
        u      == IF t # <<>> /\ Head(t) \in {43, 45} THEN Tail(t) ELSE t
        hex    == /\ Len(u) >= 3
                  /\ u[1] = 48 /\ lower(u[2]) = 120
                  /\ DigitOf(u[3]) < 16
        base   == IF hex THEN 16 ELSE IF u # <<>> /\ u[1] = 48 THEN 8 ELSE 10
        digits == IF hex THEN SubSeq(u, 3, Len(u)) ELSE u
        val    == NumberOf(digits, base)
    IN  IF digits = <<>> \/ \E k \in 1..Len(digits) : DigitOf(digits[k]) >= base
        THEN 1
        ELSE IF ~neg /\ ~Less(val, IntLimit) THEN 1
        ELSE IF neg /\ Less(IntLimit, val) THEN 1
        ELSE 0

\* The func given to sio_main: "ints" parses each of its words with
\* sio_parse_int and returns 1 when one of them fails, "words" takes any
\* words and returns 0.
CallFunc(func, words) ==
    IF func = "ints" /\ \E k \in 1..Len(words) : sio_parse_int(words[k]) = 1
    THEN 1 ELSE 0

\* The values the uninitialised bufsize of foreach_line may hold when the first
\* simple_fgetline asserts *size > 1: one that fails the assertion, one that
\* passes it.
UninitialisedSizes == {0, 128}

\* foreach_line: the body of its loop on the line that simple_fgetline
\* returned; st is the status and the list of the calls of func so far.
foreachLineBody(st, line, func, n) ==
    LET words  == split_words(line)
        nwords == Len(words)
    IN  IF line[1] = NL THEN st
        ELSE IF n > 0 /\ nwords < n THEN [st EXCEPT !.status = 1]
        ELSE IF n > 0 /\ nwords > n THEN [st EXCEPT !.status = 1]
        ELSE [st EXCEPT !.calls = Append(st.calls, words),
                        !.status = IF CallFunc(func, words) = 1 THEN 1
                                   ELSE st.status]

RECURSIVE foreachLineLoop(_, _, _, _)
foreachLineLoop(st, rest, func, n) ==
    LET r == simple_fgetline(rest)
    IN  IF Len(r.line) = 0 THEN st
        ELSE foreachLineLoop(foreachLineBody(st, r.line, func, n), r.rest, func, n)

\* foreach_line(stream, func, n) on a stream from which getc returns the bytes
\* of `bytes` and then EOF, be it at the end of the file or at a read error,
\* with size0 in the uninitialised bufsize: aborted by the assertion, or the
\* status returned and the calls of func made.
foreach_line(bytes, func, n, size0) ==
    IF size0 <= 1
    THEN [aborted |-> TRUE, status |-> 0, calls |-> <<>>]
    ELSE foreachLineLoop([aborted |-> FALSE, status |-> 0, calls |-> <<>>],
                         bytes, func, n)

----------------------------------------------------------------------------
(* Parsers, apply, Main and mapLines                                       *)

\* A Parser value is nil, the package's Int, or Int.Restrict(positive) with the
\* predicate of the package's tests; a command-line argument and a token are
\* byte strings.
NilParser == "nil"
IntParser == "Int"
PositiveParser == "Int.Restrict(positive)"

\* What a Parser call returns: (value, nil) or (nil, err). A value is an
\* interface{} holding an int, or nil; an int is kept as its sign and the
\* decimal digits of its magnitude, most significant first (zero has none).
NilValue == [type |-> "nil", neg |-> FALSE, mag |-> <<>>]

RECURSIVE Reversed(_)
Reversed(s) == IF s = <<>> THEN <<>> ELSE Append(Reversed(Tail(s)), Head(s))

BigValue(neg, n) == [type |-> "int", neg |-> neg /\ n # <<>>, mag |-> Reversed(n)]
IntValue(n) == BigValue(n < 0, MulAdd(<<>>, 1, IF n < 0 THEN 0 - n ELSE n))

\* The int of a 64-bit platform, which bitSize 0 selects, and its limit.
intSize == 64
IntSizeLimit == TwoTo(intSize - 1)

\* underscoreOK of strconv: underscores are accepted only between digits, or
\* between the base prefix and a digit. prev is the kind of the byte before.
RECURSIVE underscoreLoop(_, _, _)
underscoreLoop(s, prev, hex) ==
    IF s = <<>> THEN prev # "_"
    ELSE IF Head(s) \in 48..57 \/ (hex /\ lower(Head(s)) \in 97..102)
    THEN underscoreLoop(Tail(s), "0", hex)
    ELSE IF Head(s) = 95
    THEN prev = "0" /\ underscoreLoop(Tail(s), "_", hex)
    ELSE prev # "_" /\ underscoreLoop(Tail(s), "!", hex)

underscoreOK(s) ==
    LET u      == IF s # <<>> /\ Head(s) \in {43, 45} THEN Tail(s) ELSE s
        prefix == Len(u) >= 2 /\ u[1] = 48 /\ lower(u[2]) \in {98, 111, 120}
    IN  IF prefix
        THEN underscoreLoop(SubSeq(u, 3, Len(u)), "0", lower(u[2]) = 120)
        ELSE underscoreLoop(u, "^", FALSE)

\* The loop of strconv.ParseUint over the digits: the first byte that is no
\* digit of the base is a syntax error, the first digit that takes the number
\* beyond 64 bits a range error; underscores are passed over. parseUintDigit
\* is the end of an iteration, n1 being n * base + d.
RECURSIVE parseUintLoop(_, _, _)
RECURSIVE parseUintDigit(_, _, _)
parseUintLoop(s, base, n) ==
    IF s = <<>> THEN [err |-> "", n |-> n]
    ELSE IF Head(s) = 95 THEN parseUintLoop(Tail(s), base, n)
    ELSE IF DigitOf(Head(s)) >= base THEN [err |-> "invalid syntax", n |-> <<>>]
    ELSE parseUintDigit(s, base, MulAdd(n, base, DigitOf(Head(s))))

parseUintDigit(s, base, n1) ==
    IF ~Less(n1, Uint64Limit)
    THEN [err |-> "value out of range", n |-> <<>>]
    ELSE parseUintLoop(Tail(s), base, n1)

\* The base that strconv.ParseUint(s, 0, 64) takes from s, and the digits
\* that follow the prefix: 0b, 0o or 0x at the head of a string of three
\* bytes or more, 8 after any other leading 0, and 10 otherwise.
HasPrefix(s) == Len(s) >= 3 /\ s[1] = 48 /\ lower(s[2]) \in {98, 111, 120}
BaseOf(s) ==
    IF HasPrefix(s)
    THEN (IF lower(s[2]) = 98 THEN 2 ELSE IF lower(s[2]) = 111 THEN 8 ELSE 16)
    ELSE IF s # <<>> /\ s[1] = 48 THEN 8 ELSE 10
DigitsOf(s) ==
    IF HasPrefix(s) THEN SubSeq(s, 3, Len(s))
    ELSE IF s # <<>> /\ s[1] = 48 THEN Tail(s) ELSE s

\* The end of strconv.ParseUint: r is what the loop returned.
parseUintReturn(s, r) ==
    IF r.err # "" THEN r
    ELSE IF (\E k \in 1..Len(s) : s[k] = 95) /\ ~underscoreOK(s)
    THEN [err |-> "invalid syntax", n |-> <<>>]
    ELSE r

ParseUint(s) ==
    IF s = <<>> THEN [err |-> "invalid syntax", n |-> <<>>]
    ELSE parseUintReturn(s, parseUintLoop(DigitsOf(s), BaseOf(s), <<>>))

\* The end of strconv.ParseInt: r is what ParseUint returned on the string
\* without its sign; the number must be an int of intSize bits.
parseIntReturn(neg, r) ==
    IF r.err # "" THEN [ok |-> FALSE, value |-> NilValue, err |-> r.err]
    ELSE IF (~neg /\ ~Less(r.n, IntSizeLimit)) \/ (neg /\ Less(IntSizeLimit, r.n))
    THEN [ok |-> FALSE, value |-> NilValue, err |-> "value out of range"]
    ELSE [ok |-> TRUE, value |-> BigValue(neg, r.n), err |-> ""]

\* strconv.ParseInt(s, 0, 0): the sign, then ParseUint on what follows.
ParseInt(s) ==
    IF s = <<>> THEN [ok |-> FALSE, value |-> NilValue, err |-> "invalid syntax"]
    ELSE parseIntReturn(Head(s) = 45,
                        ParseUint(IF Head(s) \in {43, 45} THEN Tail(s) ELSE s))

\* Int, the Parser that parses a string as an int (Int is the set of integers
\* here, hence the name).
ParserInt(s) == ParseInt(s)

\* positive: the error for a negative int, "" for nil.
positive(v) == IF v.neg THEN "cannot be negative" ELSE ""

\* p.Restrict(pred) called on a string: r is what p returns on the string,
\* and err what pred returns on the value of r.
Restrict(r, err) ==
    IF ~r.ok THEN r
    ELSE IF err # "" THEN [ok |-> FALSE, value |-> NilValue, err |-> err]
    ELSE r

\* What p returns when Int returns r: Int itself, or Int.Restrict(positive).
CallResult(p, r) ==
    IF p = IntParser THEN r ELSE Restrict(r, positive(r.value))

\* The call p(s) of a parser that is not nil.
Call(p, s) == CallResult(p, ParserInt(s))

\* A line that log prints, or the usage line that fmt.Println prints.
Printed(to, kind, arg) == [to |-> to, kind |-> kind, arg |-> arg]

\* The locals of apply before its loop; panic is the runtime failure, if any.
applyEntry(args) ==
    [ args    |-> args,
      i       |-> 0,
      success |-> TRUE,
      parsed  |-> [k \in 1..Len(args) |-> NilValue],
      logged  |-> <<>>,
      panic   |-> "none" ]

\* One iteration of `for i, arg := range args`: parsers[0] is read first, then
\* parsers[i] when repeat is off; calling a nil func value panics.
applyIteration(ps, rep, a) ==
    LET arg == a.args[a.i + 1]
        p   == IF rep THEN ps[1] ELSE ps[a.i + 1]
        r   == Call(p, arg)
    IN  IF Len(ps) = 0 \/ (~rep /\ a.i >= Len(ps))
        THEN [a EXCEPT !.panic = "index out of range"]
        ELSE IF p = NilParser
        THEN [a EXCEPT !.panic = "nil func call"]
        ELSE [a EXCEPT !.i = a.i + 1,
                       !.parsed[a.i + 1] = r.value,
                       !.success = a.success /\ r.ok,
                       !.logged = IF r.ok THEN a.logged
                                  ELSE Append(a.logged, Printed("stderr", r.err, arg))]

RECURSIVE applyLoop(_, _, _)
applyLoop(ps, rep, a) ==
    IF a.panic # "none" \/ a.i >= Len(a.args) THEN a
    ELSE applyLoop(ps, rep, applyIteration(ps, rep, a))

\* apply(fn, args) under the parsers ps and the flag rep: what it returns,
\* whether and with what it called fn, what it logged, whether it panicked.
apply(ps, rep, args) ==
    LET a == applyLoop(ps, rep, applyEntry(args))
    IN  [ success |-> a.success,
          called  |-> a.panic = "none" /\ a.success,
          parsed  |-> a.parsed,
          logged  |-> a.logged,
          panic   |-> a.panic ]

\* The package's configuration: var parsers = []Parser{nil}, var repeat =
\* true, and what SetEveryParser and SetParsers assign.
DefaultConfig == [parsers |-> <<NilParser>>, repeat |-> TRUE]
SetEveryParser(p) == [parsers |-> <<p>>, repeat |-> TRUE]
SetParsers(ps) == [parsers |-> ps, repeat |-> FALSE]

Parsers == {NilParser, IntParser, PositiveParser}
Configs ==
    {DefaultConfig} \cup {SetEveryParser(p) : p \in Parsers}
                    \cup {SetParsers(ps) : ps \in SeqsUpTo(Parsers, MaxParsers)}

\* Command-line arguments: "-", "-h", "--help", "1", "-1", "x", "0", and the
\* "31872391273281937293" of parserTests, which is out of range.
Dash == <<45>>
DashH == <<45, 104>>
DashDashHelp == <<45, 45, 104, 101, 108, 112>>
OutOfRange == <<51,49,56,55,50,51,57,49,50,55,51,50,56,49,57,51,55,50,57,51>>
ArgStrings == {Dash, DashH, DashDashHelp, <<49>>, <<45, 49>>, <<120>>, <<48>>, OutOfRange}
CommandLines == SeqsUpTo(ArgStrings, MaxArgs)

\* Standard input: the bytes '1', 'x', space and newline, and some lines with
\* quotes and a backslash, with 0, 10 and 0x1f, and with a number out of range.
StdinAlphabet == {49, 120, SP, NL}
StdinExamples ==
    { <<49, SP, 49, NL>>,
      <<48, SP, 49, 48, NL, 48, 120, 49, 102, NL>>,
      OutOfRange \o <<NL, 49, NL>>,
      <<120, NL, 49, NL>>,
      <<49, NL, 120, NL>>,
      <<49, SP, 50, SP, 51, NL>>,
      <<SQ, 49, SQ, SP, 50, NL, 51, NL>>,
      <<49, SP, 120, NL, 49, SP, 50, NL>>,
      <<49, BS, NL, 50, SP, 51, NL>>,
      <<SP, SP, NL, 49, NL>>,
      <<49, SP, 45, 49, NL, 50, SP, 50, NL>>,
      <<49, SP, 50, NL, 51, NL, 49, SP, 50, SP, 51, NL>> }
StdinInputs == SeqsUpTo(StdinAlphabet, MaxStdin) \cup StdinExamples

\* The conditions of Main's switch.
IsHelp(args) == Len(args) = 1 /\ args[1] \in {DashH, DashDashHelp}
IsDash(args) == Len(args) = 1 /\ args[1] = Dash
IsPiped(args, isTerminal) == Len(args) = 0 /\ ~isTerminal
\* Mutant of CountIsRight: fewer arguments than parsers are accepted too.
CountIsRightAtMost(ps, rep, args) ==
    \/ rep /\ Len(args) > 0
    \/ ~rep /\ Len(args) <= Len(ps)

CountIsRight(ps, rep, args) ==
    \/ rep /\ Len(args) > 0
    \/ ~rep /\ Len(args) = Len(ps)

\* The process when Main is called.
\*   parsers, repeat   the package variables
\*   args              os.Args[1:]
\*   isTerminal        term.IsTerminal(term.InputFD)
\*   readFails         the source of standard input ends in a read error
\*                     rather than in io.EOF
\*   prefix            the prefix of the logger, set by init()
\*   path              the case of Main's switch that ran
\*   success           mapLines: the local of that name
\*   scanErr           mapLines: scanner.Err() is not nil
\*   lines             mapLines: the `args` of each iteration so far
\*   calls             the arguments of each call of fn so far
\*   printed           what was printed so far, and where
\*   panic             the runtime failure that ended the process, if any
\*   exit              the exit status: -1 running, 2 after a panic
MainEntry(cfg, args, isTerminal, readFails) ==
    [ pc         |-> "Main",
      parsers    |-> cfg.parsers,
      repeat     |-> cfg.repeat,
      args       |-> args,
      isTerminal |-> isTerminal,
      readFails  |-> readFails,
      prefix     |-> "prog: ",
      path       |-> "none",
      success    |-> TRUE,
      scanErr    |-> FALSE,
      lines      |-> <<>>,
      calls      |-> <<>>,
      printed    |-> <<>>,
      panic      |-> "none",
      exit       |-> -1 ]

IdleMain == [pc |-> "idle"]
IdleFgetline == [pc |-> "idle"]

\* The process after apply(fn, args) has run: fn was called or not, the
\* errors are logged, a panic ends the process.
AfterApply(m, r) ==
    [m EXCEPT !.calls = IF r.called THEN Append(m.calls, r.parsed) ELSE m.calls,
              !.printed = m.printed \o r.logged,
              !.panic = r.panic,
              !.pc = IF r.panic # "none" THEN "panic" ELSE m.pc,
              !.exit = IF r.panic # "none" THEN 2 ELSE m.exit]

\* Main, first case: fmt.Println(usage).
mainHelp(m) ==
    [m EXCEPT !.path = "help",
              !.printed = Append(m.printed, Printed("stdout", "usage", <<>>)),
              !.pc = "exited", !.exit = 0]

\* Main, second and third case: mapLines(fn), up to its loop.
mainStdin(m) ==
    [m EXCEPT !.path = "stdin",
              !.prefix = IF IsDash(m.args) THEN "error: " ELSE m.prefix,
              !.pc = "mapLines"]

\* Main, fourth case: if !apply(fn, args) { os.Exit(1) }.
mainArgs(m) ==
    LET r == apply(m.parsers, m.repeat, m.args)
        a == AfterApply([m EXCEPT !.path = "args"], r)
    IN  IF r.panic # "none" THEN a
        ELSE [a EXCEPT !.pc = "exited", !.exit = IF r.success THEN 0 ELSE 1]

\* Main, default case: the usage message to standard error, os.Exit(1).
mainUsage(m) ==
    [m EXCEPT !.path = "usage",
              !.prefix = "",
              !.printed = Append(m.printed, Printed("stderr", "usage", <<>>)),
              !.pc = "exited", !.exit = 1]

\* mapLines, the default case of the switch: if !apply(fn, args) { success =
\* false }, r being what apply did. When apply panics it does not return, and
\* the assignment to success is not reached.
mapLinesDefault(n, r) ==
    AfterApply([n EXCEPT !.success = IF r.panic # "none" THEN n.success
                                     ELSE n.success /\ r.success], r)

\* Mutant of mapLinesBody: no check of the number of tokens.
mapLinesBodyNoCount(m, args) ==
    mapLinesDefault([m EXCEPT !.lines = Append(m.lines, args)],
                    apply(m.parsers, m.repeat, args))

\* Mutant of mapLinesBody: success is that of the last line.
mapLinesBodyLastWins(m, args) ==
    LET r == apply(m.parsers, m.repeat, args)
        n == [m EXCEPT !.lines = Append(m.lines, args)]
    IN  IF ~m.repeat /\ Len(args) < Len(m.parsers)
        THEN [n EXCEPT !.success = FALSE,
                       !.printed = Append(m.printed,
                                          Printed("stderr", "too few arguments", <<>>))]
        ELSE IF ~m.repeat /\ Len(args) > Len(m.parsers)
        THEN [n EXCEPT !.success = FALSE,
                       !.printed = Append(m.printed,
                                          Printed("stderr", "too many arguments", <<>>))]
        ELSE AfterApply([n EXCEPT !.success = r.success], r)

\* mapLines: the body of `for scanner.Scan()`, args being the tokens of the
\* line.
mapLinesBody(m, args) ==
    LET r == apply(m.parsers, m.repeat, args)
        n == [m EXCEPT !.lines = Append(m.lines, args)]
    IN  IF ~m.repeat /\ Len(args) < Len(m.parsers)
        THEN [n EXCEPT !.success = FALSE,
                       !.printed = Append(m.printed,
                                          Printed("stderr", "too few arguments", <<>>))]
        ELSE IF ~m.repeat /\ Len(args) > Len(m.parsers)
        THEN [n EXCEPT !.success = FALSE,
                       !.printed = Append(m.printed,
                                          Printed("stderr", "too many arguments", <<>>))]
        ELSE mapLinesDefault(n, r)

\* mapLines after its loop: the scanner's error is logged, and the process
\* exits with status 1 unless success still holds.
mapLinesReturn(m) ==
    LET success == m.success /\ ~m.scanErr
    IN  [m EXCEPT !.success = success,
                  !.printed = IF m.scanErr
                              THEN Append(m.printed, Printed("stderr", "read error", <<>>))
                              ELSE m.printed,
                  !.pc = "exited",
                  !.exit = IF success THEN 0 ELSE 1]

----------------------------------------------------------------------------
(* Specification of the tokenizer *)

IdleScanner == [pc |-> "idle"]
IdleTokenizer == [pc |-> "idle"]

InitTokenize ==
    /\ mode = "tokenize"
    /\ input \in TokInputs
    /\ tz = tokenizeEntry(input)
    /\ stream = <<>>
    /\ sc = IdleScanner
    /\ mn = IdleMain
    /\ fg = IdleFgetline

TokStep ==
    /\ mode = "tokenize"
    /\ tz.pc = "loop"
    /\ tz.i < Len(tz.data)
    /\ tz' = tokenizeStep(tz)
    /\ UNCHANGED <<input, stream, sc, mode, mn, fg>>

TokReturn ==
    /\ mode = "tokenize"
    /\ tz.pc = "loop"
    /\ tz.i = Len(tz.data)
    /\ tz' = tokenizeReturn(tz)
    /\ UNCHANGED <<input, stream, sc, mode, mn, fg>>

NextTokenize == TokStep \/ TokReturn

SpecTokenize == InitTokenize /\ [][NextTokenize]_vars

----------------------------------------------------------------------------
(* Specification of the line scanner: `for scanner.Scan() { ... }` *)

InitScan ==
    /\ mode = "scan"
    /\ stream \in ScanInputs
    /\ sc = newLineScanner(stream)
    /\ input = <<>>
    /\ tz = IdleTokenizer
    /\ mn = IdleMain
    /\ fg = IdleFgetline

\* Scan returns true: the split function found a line.
ScanToken ==
    /\ mode = "scan"
    /\ sc.pc = "scan"
    /\ SplitResult(sc).some
    /\ sc' = scanToken(sc)
    /\ UNCHANGED <<input, tz, stream, mode, mn, fg>>

\* Scan needs more data and the source returns some.
ScanRead ==
    /\ mode = "scan"
    /\ sc.pc = "scan"
    /\ ~SplitResult(sc).some
    /\ ~sc.eof
    /\ \E n \in 1..Len(sc.rest) : sc' = scanRead(sc, n)
    /\ UNCHANGED <<input, tz, stream, mode, mn, fg>>

\* Scan needs more data and the source returns io.EOF.
ScanReadEOF ==
    /\ mode = "scan"
    /\ sc.pc = "scan"
    /\ ~SplitResult(sc).some
    /\ ~sc.eof
    /\ sc.rest = <<>>
    /\ sc' = [sc EXCEPT !.eof = TRUE]
    /\ UNCHANGED <<input, tz, stream, mode, mn, fg>>

\* Scan returns false: the end was seen and nothing is left to split.
ScanStop ==
    /\ mode = "scan"
    /\ sc.pc = "scan"
    /\ ~SplitResult(sc).some
    /\ sc.eof
    /\ sc' = [sc EXCEPT !.pc = "done", !.buf = <<>>]
    /\ UNCHANGED <<input, tz, stream, mode, mn, fg>>

NextScan == ScanToken \/ ScanRead \/ ScanReadEOF \/ ScanStop

SpecScan == InitScan /\ [][NextScan]_vars

\* sio_main of simpleio.c: which of its four returns it takes, argv being
\* argv[1..argc-1] and n the number of words func expects (0: any number).
sio_main(argv, isatty, n) ==
    LET argc == Len(argv) + 1
    IN  IF argc = 2 /\ (argv[1] = DashH \/ argv[1] = DashDashHelp) THEN "help"
        ELSE IF (argc = 1 /\ ~isatty) \/ (argc = 2 /\ argv[1] = Dash) THEN "stdin"
        ELSE IF (n = 0 /\ argc > 1) \/ (n > 0 /\ argc - 1 = n) THEN "args"
        ELSE "usage"

----------------------------------------------------------------------------
(* Specification of a program that calls Main *)

ReadsStdin(args, isTerminal) ==
    ~IsHelp(args) /\ (IsDash(args) \/ IsPiped(args, isTerminal))

InitMain ==
    /\ mode = "main"
    /\ input = <<>>
    /\ fg = IdleFgetline
    /\ tz = IdleTokenizer
    /\ sc = IdleScanner
    /\ \E cfg \in Configs, args \in CommandLines, isTerminal \in BOOLEAN :
          LET piped == ReadsStdin(args, isTerminal)
          IN  /\ stream \in (IF piped THEN StdinInputs ELSE {<<>>})
              /\ \E readFails \in (IF piped THEN BOOLEAN ELSE {FALSE}) :
                    mn = MainEntry(cfg, args, isTerminal, readFails)

MainHelp ==
    /\ mode = "main"
    /\ mn.pc = "Main"
    /\ IsHelp(mn.args)
    /\ mn' = mainHelp(mn)
    /\ UNCHANGED <<input, tz, stream, sc, mode, fg>>

MainStdin ==
    /\ mode = "main"
    /\ mn.pc = "Main"
    /\ ~IsHelp(mn.args)
    /\ IsDash(mn.args) \/ IsPiped(mn.args, mn.isTerminal)
    /\ mn' = mainStdin(mn)
    /\ sc' = newLineScanner(stream)
    /\ UNCHANGED <<input, tz, stream, mode, fg>>

MainArgs ==
    /\ mode = "main"
    /\ mn.pc = "Main"
    /\ ~IsHelp(mn.args)
    /\ ~(IsDash(mn.args) \/ IsPiped(mn.args, mn.isTerminal))
    /\ CountIsRight(mn.parsers, mn.repeat, mn.args)
    /\ mn' = mainArgs(mn)
    /\ UNCHANGED <<input, tz, stream, sc, mode, fg>>

MainUsage ==
    /\ mode = "main"
    /\ mn.pc = "Main"
    /\ ~IsHelp(mn.args)
    /\ ~(IsDash(mn.args) \/ IsPiped(mn.args, mn.isTerminal))
    /\ ~CountIsRight(mn.parsers, mn.repeat, mn.args)
    /\ mn' = mainUsage(mn)
    /\ UNCHANGED <<input, tz, stream, sc, mode, fg>>

\* mapLines: Scan returns true and the body of the loop runs on the line.
MapLine ==
    /\ mode = "main"
    /\ mn.pc = "mapLines"
    /\ SplitResult(sc).some
    /\ sc' = scanToken(sc)
    /\ LET end == tokenizeRun(tokenizeEntry(SplitResult(sc).token))
       IN  mn' = IF end.pc = "panic"
                 THEN [mn EXCEPT !.pc = "panic", !.panic = "index out of range",
                                 !.exit = 2]
                 ELSE mapLinesBody(mn, TokenStrings(end))
    /\ UNCHANGED <<input, tz, stream, mode, fg>>

\* mapLines: Scan reads, and the source returns some bytes.
MapRead ==
    /\ mode = "main"
    /\ mn.pc = "mapLines"
    /\ ~SplitResult(sc).some
    /\ ~sc.eof
    /\ \E n \in 1..Len(sc.rest) : sc' = scanRead(sc, n)
    /\ UNCHANGED <<input, tz, stream, mode, mn, fg>>

\* mapLines: Scan reads, and the source returns io.EOF.
MapReadEOF ==
    /\ mode = "main"
    /\ mn.pc = "mapLines"
    /\ ~SplitResult(sc).some
    /\ ~sc.eof
    /\ sc.rest = <<>>
    /\ ~mn.readFails
    /\ sc' = [sc EXCEPT !.eof = TRUE]
    /\ UNCHANGED <<input, tz, stream, mode, mn, fg>>

\* mapLines: Scan reads, and the source returns an error that is not io.EOF.
\* The scanner keeps it, calls the split function once more as at the end of
\* the input, and returns it from Err().
MapReadError ==
    /\ mode = "main"
    /\ mn.pc = "mapLines"
    /\ ~SplitResult(sc).some
    /\ ~sc.eof
    /\ sc.rest = <<>>
    /\ mn.readFails
    /\ sc' = [sc EXCEPT !.eof = TRUE]
    /\ mn' = [mn EXCEPT !.scanErr = TRUE]
    /\ UNCHANGED <<input, tz, stream, mode, fg>>

\* mapLines: Scan returns false, and mapLines finishes.
MapReturn ==
    /\ mode = "main"
    /\ mn.pc = "mapLines"
    /\ ~SplitResult(sc).some
    /\ sc.eof
    /\ sc' = [sc EXCEPT !.pc = "done", !.buf = <<>>]
    /\ mn' = mapLinesReturn(mn)
    /\ UNCHANGED <<input, tz, stream, mode, fg>>

NextMain ==
    \/ MainHelp \/ MainStdin \/ MainArgs \/ MainUsage
    \/ MapLine \/ MapRead \/ MapReadEOF \/ MapReadError \/ MapReturn

SpecMain == InitMain /\ [][NextMain]_vars

\* The loop `for scanner.Scan()` keeps running until Scan returns false: a
\* step that is possible is eventually taken.
\* Its streams are shorter than those of SpecScan.
InitScanFair ==
    /\ mode = "scan"
    /\ stream \in SeqsUpTo(ScanAlphabet, MaxFairStream) \cup FairExamples
    /\ sc = newLineScanner(stream)
    /\ input = <<>>
    /\ tz = IdleTokenizer
    /\ mn = IdleMain
    /\ fg = IdleFgetline

SpecScanFair == InitScanFair /\ [][NextScan]_vars /\ WF_vars(NextScan)

\* The specification of simple_fgetline as foreach_line calls it: the stream
\* is read line by line, each call entering, storing byte after byte, and
\* returning. The first call has no buffer and finds some value in the
\* uninitialised bufsize, or has a buffer of the caller of at least two bytes;
\* the streams are the short ones over FgAlphabet and lines whose length is
\* about block_size.
FgAlphabet == {120, BS, NL}
LongLine(n) == [k \in 1..n |-> 120]
FgLongStreams ==
    {LongLine(n) \o <<NL, 120, NL>> : n \in (block_size - 2)..(block_size + 1)}
        \cup {LongLine(block_size), LongLine(block_size - 2) \o <<BS, NL, 120, NL>>}
FgStreams == SeqsUpTo(FgAlphabet, MaxFgLen) \cup FgLongStreams
NullSizes == UninitialisedSizes \cup {1}
CallerSizes == 2..MaxFgSize

InitFgetline ==
    /\ mode = "fgetline"
    /\ input = <<>>
    /\ tz = IdleTokenizer
    /\ sc = IdleScanner
    /\ mn = IdleMain
    /\ stream \in FgStreams
    /\ \E asserts \in BOOLEAN :
          \/ \E size \in NullSizes : fg = fgetlineCall("NULL", size, stream, asserts)
          \/ \E size \in CallerSizes : fg = fgetlineCall("buf", size, stream, asserts)

FgEnter ==
    /\ mode = "fgetline"
    /\ fg.pc = "entry"
    /\ fg' = fgetlineEnter(fg)
    /\ UNCHANGED <<input, tz, stream, sc, mode, mn>>

FgStore ==
    /\ mode = "fgetline"
    /\ fg.pc = "loop"
    /\ fg.c # -1 /\ ~fg.f.brk
    /\ fg' = fgetlineStore(fg)
    /\ UNCHANGED <<input, tz, stream, sc, mode, mn>>

FgReturn ==
    /\ mode = "fgetline"
    /\ fg.pc = "loop"
    /\ fg.c = -1 \/ fg.f.brk
    /\ \E outcome \in {"returned", "crashed"} : fg' = fgetlineReturn(fg, outcome)
    /\ UNCHANGED <<input, tz, stream, sc, mode, mn>>

FgNextCall ==
    /\ mode = "fgetline"
    /\ fg.pc = "returned"
    /\ fg.ret # 0
    /\ fg' = foreachLineNextCall(fg)
    /\ UNCHANGED <<input, tz, stream, sc, mode, mn>>

NextFgetline == FgEnter \/ FgStore \/ FgReturn \/ FgNextCall

SpecFgetline == InitFgetline /\ [][NextFgetline]_vars

\* What the caller holds once tokenize has returned.
Returned == tz.pc = "done"
Result == TokenStrings(tz)

----------------------------------------------------------------------------
(* Notions of the specification, stated on the line as it was passed in.   *)
(* None of them reads the tokenizer's own variables.                       *)

\* The length of the run of consecutive backslashes that ends at position k.
RECURSIVE BackslashRun(_, _)
BackslashRun(s, k) ==
    IF k >= 1 /\ s[k] = BS THEN 1 + BackslashRun(s, k - 1) ELSE 0

\* Byte k is escaped: an odd run of backslashes stands immediately before it.
EscapedAt(s, k) == BackslashRun(s, k - 1) % 2 = 1

\* The open quote (0: Unquoted) after the first k bytes.
RECURSIVE QuoteAfter(_, _)
QuoteAfter(s, k) ==
    IF k = 0 THEN 0
    ELSE LET q == QuoteAfter(s, k - 1)
         IN  IF EscapedAt(s, k) THEN q
             ELSE IF q = 0 THEN (IF IsQuoteChar(s[k]) THEN s[k] ELSE 0)
             ELSE IF s[k] = q THEN 0
             ELSE q

QuoteBefore(s, k) == QuoteAfter(s, k - 1)

\* Byte k is whitespace that delimits: unquoted and unescaped.
Delimits(s, k) == IsSpace(s[k]) /\ ~EscapedAt(s, k) /\ QuoteBefore(s, k) = 0

\* The first bytes of the fields: maximal runs of bytes that do not delimit.
FieldStarts(s) ==
    {k \in 1..Len(s) : ~Delimits(s, k) /\ (k = 1 \/ Delimits(s, k - 1))}

\* The bytes of s at the positions of K, in order.
RECURSIVE PickFrom(_, _, _)
PickFrom(s, K, k) ==
    IF k > Len(s) THEN <<>>
    ELSE (IF k \in K THEN <<s[k]>> ELSE <<>>) \o PickFrom(s, K, k + 1)

Pick(s, K) == PickFrom(s, K, 1)

\* The number of bytes equal to c in all the strings of a list.
RECURSIVE CountIn(_, _)
CountIn(list, c) ==
    IF list = <<>> THEN 0
    ELSE Cardinality({k \in 1..Len(Head(list)) : Head(list)[k] = c})
         + CountIn(Tail(list), c)

\* Splitting on maximal whitespace runs: the maximal runs of non-whitespace.
WordStarts(s) == {k \in 1..Len(s) : ~IsSpace(s[k]) /\ (k = 1 \/ IsSpace(s[k - 1]))}
WordEnd(s, k) ==
    CHOOSE m \in k..Len(s) :
        /\ \A j \in k..m : ~IsSpace(s[j])
        /\ m = Len(s) \/ IsSpace(s[m + 1])
NthOf(K, n) == CHOOSE k \in K : Cardinality({j \in K : j < k}) = n - 1
SplitOnSpace(s) ==
    [n \in 1..Cardinality(WordStarts(s)) |->
        SubSeq(s, NthOf(WordStarts(s), n), WordEnd(s, NthOf(WordStarts(s), n)))]

NoSpecial(s) == \A k \in 1..Len(s) : s[k] \notin {SQ, DQ, BS}

\* The iteration that reads byte k = tz.i + 1 of the line is being taken.
Reads == tz.pc = "loop" /\ tz'.pc = "loop" /\ tz'.i = tz.i + 1
\* That iteration gives the byte no place in the output / copies it to the output.
Excluded == tz'.shift = tz.shift + 1
Copied == tz'.shift = tz.shift /\ tz'.data[tz.i + 1 - tz.shift] = input[tz.i + 1]

----------------------------------------------------------------------------
(* Claims about tokenize, checked under SpecTokenize *)

\* C1: for a line with no quote and no backslash, tokenize returns exactly the
\* ordered list of the maximal non-whitespace runs of the line; an empty or
\* all-whitespace line gives the empty list.
C1_SplitsOnWhitespace ==
    Returned /\ NoSpecial(input) =>
        /\ Result = SplitOnSpace(input)
        /\ (\A k \in 1..Len(input) : IsSpace(input[k])) => Result = <<>>

C1_Witness ==
    /\ Returned
    /\ input = <<SP, 97, SP, SP, 98>>
    /\ Result = << <<97>>, <<98>> >>

\* C2: whitespace ends a token only when read unquoted and unescaped; an open
\* token stays open over every other byte, so the tokens are the maximal runs
\* of bytes without delimiting whitespace (a'b c'd is the one token "ab cd").
C2_OnlyDelimitingSpaceEndsToken ==
    [][ /\ Reads =>
            /\ Len(tz'.tokens) > Len(tz.tokens) => Delimits(input, tz.i + 1)
            /\ tz.start # -1 /\ ~Delimits(input, tz.i + 1) =>
                   tz'.start = tz.start /\ tz'.tokens = tz.tokens
        /\ tz'.pc = "done" =>
            /\ Len(tz'.tokens) = Cardinality(FieldStarts(input))
            /\ input = <<97, SQ, 98, SP, 99, SQ, 100>> =>
                   TokenStrings(tz') = << <<97, 98, SP, 99, 100>> >>
      ]_vars

C2_Witness ==
    /\ Returned
    /\ input = <<97, SQ, 98, SP, 99, SQ, 100>>
    /\ Result = << <<97, 98, SP, 99, 100>> >>

\* C3: an unescaped quote read in Unquoted state opens a region of its kind
\* and is excluded from the output; the matching unescaped quote closes it and
\* is excluded; an unescaped quote of the other kind inside a region is copied
\* and leaves the quote state alone.
C3_QuotesOpenCloseOrAreLiteral ==
    [][ /\ Reads =>
            LET c == input[tz.i + 1]
                unescaped == ~EscapedAt(input, tz.i + 1)
            IN  /\ tz.quote = QuoteBefore(input, tz.i + 1)
                /\ unescaped /\ tz.quote = 0 /\ IsQuoteChar(c) =>
                       tz'.quote = c /\ Excluded
                /\ unescaped /\ tz.quote # 0 /\ c = tz.quote =>
                       tz'.quote = 0 /\ Excluded
                /\ unescaped /\ tz.quote # 0 /\ IsQuoteChar(c) /\ c # tz.quote =>
                       tz'.quote = tz.quote /\ Copied
        /\ tz'.pc = "done" /\ BS \notin {input[k] : k \in 1..Len(input)} =>
               SubSeq(tz'.data, 1, Len(input) - tz'.shift)
                   = Pick(input, {k \in 1..Len(input) :
                                     QuoteAfter(input, k) = QuoteBefore(input, k)})
      ]_vars

C3_Witness ==
    /\ Returned
    /\ input = <<DQ, 97, SP, SQ, 98, DQ>>
    /\ Result = << <<97, SP, SQ, 98>> >>
    /\ tz.quote = 0

\* C4: every unescaped backslash is removed and the byte after it is copied
\* verbatim into the open token, whatever the byte and whatever the quote
\* state; an escaped backslash gives one literal backslash and escapes nothing.
C4_BackslashEscapesOneByte ==
    [][ /\ Reads =>
            LET k == tz.i + 1
            IN  /\ EscapedAt(input, k) =>
                    /\ Copied
                    /\ tz.start # -1 /\ tz.start <= tz.i - tz.shift
                    /\ tz'.start = tz.start /\ tz'.tokens = tz.tokens
                    /\ tz'.quote = tz.quote
                    /\ ~tz'.escaped
                /\ ~EscapedAt(input, k) /\ input[k] = BS =>
                    Excluded /\ tz'.escaped
        /\ tz'.pc = "done" =>
            /\ CountIn(TokenStrings(tz'), BS)
                   = Cardinality({k \in 1..Len(input) :
                                     input[k] = BS /\ EscapedAt(input, k)})
            /\ input = <<97, BS, SP, 98>> => TokenStrings(tz') = << <<97, SP, 98>> >>
            /\ input = <<97, BS, BS, 98>> => TokenStrings(tz') = << <<97, BS, 98>> >>
      ]_vars

C4_Witness ==
    /\ Returned
    /\ input = <<SQ, BS, SQ, BS, BS>>
    /\ Result = << <<SQ, BS>> >>
    /\ tz.quote = SQ

\* C5: an empty quoted region with delimiting whitespace or a line end on both
\* sides gives exactly one zero-length token at its place in the list; one
\* that touches other content adds nothing to that content's token.
EmptyRegionAt(s, k) ==
    /\ k + 1 <= Len(s)
    /\ IsQuoteChar(s[k]) /\ s[k + 1] = s[k]
    /\ ~EscapedAt(s, k) /\ QuoteBefore(s, k) = 0
StandsAlone(s, k) ==
    /\ k = 1 \/ Delimits(s, k - 1)
    /\ k + 1 = Len(s) \/ Delimits(s, k + 2)
Without(s, k) == SubSeq(s, 1, k - 1) \o SubSeq(s, k + 2, Len(s))

C5_EmptyQuotedRegion ==
    Returned =>
        \A k \in 1..Len(input) :
            EmptyRegionAt(input, k) =>
                IF StandsAlone(input, k)
                THEN LET n == 1 + Cardinality({j \in FieldStarts(input) : j < k})
                     IN  /\ n <= Len(Result)
                         /\ Result[n] = <<>>
                         /\ Len(Result) = Len(tokenize(Without(input, k))) + 1
                ELSE Result = tokenize(Without(input, k))

C5_Witness ==
    /\ Returned
    /\ input = <<97, SP, SQ, SQ>>
    /\ Result = << <<97>>, <<>> >>

C5_WitnessAdjacent ==
    /\ Returned
    /\ input = <<120, SQ, SQ, 121>>
    /\ Result = << <<120, 121>> >>

\* C6: tokenize fails on no input; with a quote still open at the end of the
\* line, all that follows the opening quote is one quoted region (no
\* whitespace delimits, unescaped backslashes are stripped) and the last token
\* runs to the end of the line.
OpenQuotePos(s) ==
    CHOOSE q \in 1..Len(s) :
        /\ QuoteBefore(s, q) = 0
        /\ \A j \in q..Len(s) : QuoteAfter(s, j) # 0
QuotedTail(s) ==
    Pick(s, {k \in (OpenQuotePos(s) + 1)..Len(s) : EscapedAt(s, k) \/ s[k] # BS})

C6_NeverFailsUnterminatedQuote ==
    /\ tz.pc # "panic"
    /\ Returned /\ QuoteAfter(input, Len(input)) # 0 =>
           LET tail == QuotedTail(input)
               n    == Len(Result)
           IN  /\ n >= 1
               /\ tz.tokens[n].hi = Len(input) - tz.shift
               /\ tz.tokens[n].lo <= OpenQuotePos(input) - 1
               /\ Len(Result[n]) >= Len(tail)
               /\ SubSeq(Result[n], Len(Result[n]) - Len(tail) + 1, Len(Result[n])) = tail
               /\ n = Cardinality({j \in FieldStarts(input) : j <= OpenQuotePos(input)})

C6_Witness ==
    /\ Returned
    /\ input = <<39,32,97,98,49,32,91,122,93,32,92,39,92,39,32,52>>
    /\ Result = << <<32,97,98,49,32,91,122,93,32,39,39,32,52>> >>
    /\ tz.quote = SQ

----------------------------------------------------------------------------
(* Claims about the line scanner, checked under SpecScan *)

RECURSIVE Flatten(_)
Flatten(list) == IF list = <<>> THEN <<>> ELSE Head(list) \o Flatten(Tail(list))

RECURSIVE SumSeq(_)
SumSeq(s) == IF s = <<>> THEN 0 ELSE Head(s) + SumSeq(Tail(s))

\* The bytes of sc.fed that the n-th Scan consumed for the n-th line.
Segment(n) ==
    LET off == SumSeq(SubSeq(sc.advances, 1, n - 1))
    IN  SubSeq(sc.fed, off + 1, off + sc.advances[n])

\* The last byte of s is a newline read in Unquoted state: it terminates.
Terminated(s) == Len(s) > 0 /\ s[Len(s)] = NL /\ QuoteBefore(s, Len(s)) = 0

\* The bytes of a consumed segment without the newline that terminates it.
Body(s) == IF Terminated(s) THEN SubSeq(s, 1, Len(s) - 1) ELSE s

\* s without its last byte when that byte is a carriage return.
WithoutFinalCR(s) ==
    Pick(s, {k \in 1..Len(s) : ~(k = Len(s) /\ s[k] = CR)})

ScanDone == sc.pc = "done"

\* C7: a newline ends a logical line only if the quote state at it is
\* Unquoted; a newline read inside an open quote stays in the line. The quote
\* state is that of QuoteAfter: only unescaped quotes toggle it, the matching
\* one closes, the other kind is inert.
C7_NewlineEndsLineOnlyUnquoted ==
    \A n \in 1..Len(sc.lines) :
        LET seg  == Segment(n)
            line == sc.lines[n]
        IN  /\ Len(line) <= Len(seg)
            /\ line = SubSeq(seg, 1, Len(line))
            /\ \A k \in 1..Len(seg) :
                   seg[k] = NL =>
                       IF QuoteBefore(seg, k) = 0
                       THEN k = Len(seg) /\ Len(line) < k
                       ELSE k <= Len(line) /\ line[k] = NL

C7_Witness ==
    /\ ScanDone
    /\ stream = <<104,101,39,108,108,111,10,104,101,108,108,111,39,49,10,97,98,99,92,39,10,32>>
    /\ sc.lines = << <<104,101,39,108,108,111,10,104,101,108,108,111,39,49>>,
                     <<97,98,99,92,39>>,
                     <<32>> >>

C7_WitnessOtherKind ==
    /\ ScanDone
    /\ stream = <<97,34,10,34,39,97>>
    /\ sc.lines = << <<97,34,10,34,39,97>> >>

\* The positions of a stream that are continuations in the sense of the
\* specification: the pair is dropped only in Unquoted state.
DroppedIfUnquotedOnly(s) ==
    {k \in 1..Len(s) :
        \/ /\ s[k] = BS /\ k + 1 <= Len(s) /\ s[k + 1] = NL
           /\ ~EscapedAt(s, k) /\ QuoteBefore(s, k) = 0
        \/ /\ s[k] = NL /\ k >= 2 /\ s[k - 1] = BS
           /\ ~EscapedAt(s, k - 1) /\ QuoteBefore(s, k - 1) = 0}

\* C8: a backslash-newline pair is dropped exactly when the backslash is not
\* escaped and the quote state is Unquoted; inside an open quote both bytes
\* stay. Stated for what the line reader has handed to the scanner once the
\* stream is read, however the source splits the stream into Reads.
C8_DropsPairOnlyWhenUnquoted ==
    (mode = "scan" /\ sc.rest = <<>>) =>
        sc.fed = Pick(stream, (1..Len(stream)) \ DroppedIfUnquotedOnly(stream))

\* C9, as stated: a carriage return is removed only when it stands
\* immediately before the newline that terminates the line; the last byte of
\* a final line ended by end-of-stream is kept even when it is a carriage
\* return.
C9_DropsCROnlyBeforeNewline ==
    \A n \in 1..Len(sc.lines) :
        sc.lines[n] = IF Terminated(Segment(n))
                      THEN WithoutFinalCR(Body(Segment(n)))
                      ELSE Segment(n)

\* C9, amended: a carriage return is removed only when it is the last byte of
\* the line, whether a newline or the end of the stream ends that line; every
\* other carriage return is kept.
C9_DropsOnlyFinalCR ==
    \A n \in 1..Len(sc.lines) :
        sc.lines[n] = WithoutFinalCR(Body(Segment(n)))

C9_Witness ==
    /\ ScanDone
    /\ stream = <<CR, 120, CR>>
    /\ sc.lines = << <<CR, 120>> >>

\* The newlines of s that terminate a line.
TerminatingNewlines(s) == {k \in 1..Len(s) : s[k] = NL /\ QuoteBefore(s, k) = 0}

\* C10: at end-of-stream the unread remainder is emitted as one final line and
\* nothing follows a stream that ends with a terminating newline: an empty
\* stream gives no line, a lone newline one empty line, "x\n\ny\n" the lines
\* "x", "", "y".
C10_FinalLineAtEndOfStream ==
    ScanDone =>
        LET T    == TerminatingNewlines(sc.fed)
            last == IF T = {} THEN 0 ELSE CHOOSE k \in T : \A j \in T : j <= k
            rem  == SubSeq(sc.fed, last + 1, Len(sc.fed))
        IN  /\ sc.rest = <<>>
            /\ SumSeq(sc.advances) = Len(sc.fed)
            /\ Len(sc.lines) = Cardinality(T) + (IF rem = <<>> THEN 0 ELSE 1)
            /\ rem # <<>> =>
                   /\ Segment(Len(sc.lines)) = rem
                   /\ sc.lines[Len(sc.lines)] \in {rem, WithoutFinalCR(rem)}
            /\ \A n \in 1..Len(sc.lines) :
                   n <= Cardinality(T) => Terminated(Segment(n))
            /\ stream = <<>> => sc.lines = <<>>
            /\ stream = <<NL>> => sc.lines = << <<>> >>
            /\ stream = <<120, NL, NL, 121, NL>> =>
                   sc.lines = << <<120>>, <<>>, <<121>> >>

C10_Witness ==
    /\ ScanDone
    /\ stream = <<120, NL, NL, 121, NL>>
    /\ sc.lines = << <<120>>, <<>>, <<121>> >>

C10_WitnessOpenQuote ==
    /\ ScanDone
    /\ stream = <<NL, SQ, NL, 120>>
    /\ sc.lines = << <<>>, <<SQ, NL, 120>> >>

----------------------------------------------------------------------------
(* Claims about the scanner and the tokenizer together: mapLines hands     *)
(* each scanner.Bytes() to tokenize                                        *)

\* The locals of tokenize when it returns on the n-th line of the scanner.
TokenizerAtEndOf(n) == tokenizeRun(tokenizeEntry(sc.lines[n]))

\* The scanner cut the n-th line at a newline: the newline is the last byte it
\* consumed for the line and is not part of the line.
CutAtNewline(n) ==
    LET seg == Segment(n)
    IN  Len(seg) > Len(sc.lines[n]) /\ seg[Len(seg)] = NL

\* C11: a line the scanner cut at a newline leaves the tokenizer Unquoted at
\* its end, and on every line the tokenizer ends in the quote state that the
\* bytes of the line give: the two track quotes and escapes alike, and the
\* carriage return dropCR removes changes neither.
C11_TerminatedLineEndsUnquoted ==
    \A n \in 1..Len(sc.lines) :
        LET seg  == Segment(n)
            body == IF CutAtNewline(n) THEN SubSeq(seg, 1, Len(seg) - 1) ELSE seg
            end  == TokenizerAtEndOf(n)
        IN  /\ end.pc = "done"
            /\ end.quote = QuoteAfter(body, Len(body))
            /\ CutAtNewline(n) => end.quote = 0

\* A terminated line that holds a quoted newline, and a later line.
C11_Witness ==
    /\ ScanDone
    /\ stream = <<SQ, NL, SQ, NL, 120>>
    /\ sc.lines = << <<SQ, NL, SQ>>, <<120>> >>
    /\ CutAtNewline(1)
    /\ TokenizerAtEndOf(1).quote = 0
    /\ TokenizerAtEndOf(1).escaped = FALSE

----------------------------------------------------------------------------
(* Claims about Main, mapLines and apply, checked under SpecMain *)

Exited == mode = "main" /\ mn.pc = "exited"

\* The n that sio_main is given for a configuration of the Go package.
WordsExpected == IF mn.repeat THEN 0 ELSE Len(mn.parsers)

\* C12: a read failure that is not end-of-file is reported in both
\* implementations: the Go scanner's Err() is not nil and mapLines exits with
\* status 1, and foreach_line of the C implementation returns a nonzero
\* status; the lines emitted before the failure have all been processed.
C12_ReadFailureIsReported ==
    (Exited /\ mn.path = "stdin" /\ mn.readFails) =>
        /\ mn.scanErr
        /\ mn.exit = 1
        /\ Len(mn.lines) = Len(sc.lines)
        /\ \A size0 \in UninitialisedSizes, func \in {"ints", "words"} :
              LET c == foreach_line(stream, func, WordsExpected, size0)
              IN  ~c.aborted => c.status # 0

\* C13: a nil Parser behaves as the identity and never reports an error: with
\* the default configuration, and with any parser list that has nil entries,
\* apply completes without a runtime failure, and fn is called with the
\* arguments when no other parser failed.
C13_NilParserIsIdentity ==
    mode = "main" =>
        /\ mn.pc # "panic"
        /\ (mn.pc = "exited" /\ mn.path = "args"
              /\ \A k \in 1..Len(mn.parsers) : mn.parsers[k] = NilParser)
           => (mn.exit = 0 /\ Len(mn.calls) = 1)

\* C14: with one repeated parser, every call of fn that Main makes, for the
\* command line or for a line of standard input, an empty or all-whitespace
\* line included, passes a nonzero number of arguments.
C14_RepeatPassesNonzeroArguments ==
    (mode = "main" /\ mn.repeat) =>
        \A c \in 1..Len(mn.calls) : Len(mn.calls[c]) > 0

\* The value the parser p returns on the string s, for a parser that is not
\* nil.
ValueOf(p, s) ==
    IF p = PositiveParser /\ ParseInt(s).ok /\ ParseInt(s).value.neg
    THEN NilValue
    ELSE ParseInt(s).value

\* The strings apply was called on in a step that called fn: the command line,
\* or the tokens of the line the scanner has just returned.
Applied ==
    IF mn'.path = "args" THEN mn.args ELSE tokenize(sc'.lines[Len(sc'.lines)])

\* C15: after SetParsers(ps...), every call of fn passes exactly len(ps)
\* arguments, the i-th being what ps[i] returns on the i-th token or
\* command-line argument; apply never indexes parsers out of range; and a line
\* of standard input with fewer or more than len(ps) tokens is reported as
\* "too few arguments" or "too many arguments" and fn is not called for it.
C15_SetParsersFixesArgumentCount ==
    /\ [][(mode = "main" /\ ~mn.repeat) =>
            /\ mn'.calls # mn.calls =>
                  LET got == mn'.calls[Len(mn'.calls)]
                  IN  /\ mn'.calls = Append(mn.calls, got)
                      /\ Len(got) = Len(mn.parsers)
                      /\ Len(Applied) = Len(mn.parsers)
                      /\ \A i \in 1..Len(got) :
                            /\ got[i] = ValueOf(mn.parsers[i], Applied[i])
                            /\ got[i] # NilValue
            /\ (mn.pc = "mapLines" /\ Len(sc'.lines) > Len(sc.lines)) =>
                  LET tokens == tokenize(sc'.lines[Len(sc'.lines)])
                  IN  /\ Len(tokens) < Len(mn.parsers) =>
                            /\ mn'.calls = mn.calls
                            /\ mn'.printed = Append(mn.printed,
                                   Printed("stderr", "too few arguments", <<>>))
                      /\ Len(tokens) > Len(mn.parsers) =>
                            /\ mn'.calls = mn.calls
                            /\ mn'.printed = Append(mn.printed,
                                   Printed("stderr", "too many arguments", <<>>))
         ]_vars
    /\ []((mode = "main" /\ ~mn.repeat) => mn.panic # "index out of range")

\* Two Int parsers; the lines "1 2", "3" and "1 2 3": one call, one line with
\* too few and one with too many tokens.
C15_Witness ==
    /\ Exited
    /\ ~mn.repeat
    /\ mn.parsers = <<IntParser, IntParser>>
    /\ stream = <<49, SP, 50, NL, 51, NL, 49, SP, 50, SP, 51, NL>>
    /\ mn.calls = << <<IntValue(1), IntValue(2)>> >>
    /\ mn.printed = << Printed("stderr", "too few arguments", <<>>),
                       Printed("stderr", "too many arguments", <<>>) >>
    /\ mn.exit = 1

\* The same on the command line: two arguments for two parsers.
C15_WitnessCommandLine ==
    /\ Exited
    /\ mn.path = "args"
    /\ mn.parsers = <<IntParser, IntParser>>
    /\ mn.args = << <<49>>, <<49>> >>
    /\ mn.calls = << <<IntValue(1), IntValue(1)>> >>

\* The parser p reports an error on the string s.
ParserFails(p, s) == p # NilParser /\ ~Call(p, s).ok

\* A line with these tokens fails: the count is wrong, or a token does not
\* parse.
LineFails(ps, rep, tokens) ==
    \/ ~rep /\ Len(tokens) # Len(ps)
    \/ \E i \in 1..Len(tokens) :
          ParserFails(IF rep THEN ps[1] ELSE ps[i], tokens[i])

\* C16: mapLines treats each line on its own and goes on to the later lines
\* after one fails; a recorded failure is never cleared; and when the input is
\* exhausted the process exits with status 1 exactly when some line had the
\* wrong number of arguments or an argument that did not parse, or the scanner
\* reported an error, and with status 0 otherwise.
C16_FailureIsRememberedNotFatal ==
    /\ [][(mode = "main" /\ mn.pc = "mapLines" /\ ~mn.success)
              => ~mn'.success]_vars
    /\ []((Exited /\ mn.path = "stdin") =>
            /\ Len(mn.lines) = Len(sc.lines)
            /\ \A n \in 1..Len(sc.lines) : mn.lines[n] = tokenize(sc.lines[n])
            /\ sc.rest = <<>> /\ sc.buf = <<>>
            /\ mn.exit \in {0, 1}
            /\ mn.exit = 1 <=>
                  \/ \E n \in 1..Len(sc.lines) :
                        LineFails(mn.parsers, mn.repeat, tokenize(sc.lines[n]))
                  \/ mn.readFails)

\* "x" fails to parse, the later line "1" is still passed to fn, and the
\* process exits with status 1.
C16_Witness ==
    /\ Exited
    /\ mn.parsers = <<IntParser>> /\ mn.repeat
    /\ stream = <<120, NL, 49, NL>>
    /\ ~mn.readFails
    /\ mn.calls = << <<IntValue(1)>> >>
    /\ mn.printed = << Printed("stderr", "invalid syntax", <<120>>) >>
    /\ mn.exit = 1

\* Every line is fine and the read fails at the end: status 1.
C16_WitnessReadError ==
    /\ Exited
    /\ stream = <<49, NL>>
    /\ mn.readFails
    /\ mn.calls = << <<IntValue(1)>> >>
    /\ mn.exit = 1

\* C17: Main's dispatch follows its documentation. A single "-h" or "--help"
\* prints the usage message to standard output and fn is never called; a
\* single "-", or no argument when standard input is not a terminal, reads
\* standard input; otherwise fn is applied to the command line only when the
\* number of arguments is right (any positive number in repeat mode, exactly
\* len(parsers) otherwise); in every remaining case the usage message goes to
\* standard error, the exit status is 1 and fn is never called. sio_main takes
\* the same case wherever its n can express the configuration.
C17_MainDispatchFollowsDocumentation ==
    (mode = "main" /\ mn.pc # "Main") =>
        LET a      == mn.args
            usage  == [to : {"stdout", "stderr"}, kind : {"usage"}, arg : {<<>>}]
            usages == {k \in 1..Len(mn.printed) : mn.printed[k] \in usage}
        IN  /\ IF a = <<DashH>> \/ a = <<DashDashHelp>>
               THEN /\ mn.path = "help"
                    /\ mn.printed = <<Printed("stdout", "usage", <<>>)>>
                    /\ mn.calls = <<>>
                    /\ mn.exit = 0
               ELSE IF a = <<Dash>> \/ (a = <<>> /\ ~mn.isTerminal)
               THEN /\ mn.path = "stdin"
                    /\ usages = {}
               ELSE IF \/ mn.repeat /\ Len(a) >= 1
                       \/ ~mn.repeat /\ Len(a) = Len(mn.parsers)
               THEN /\ mn.path = "args"
                    /\ usages = {}
                    /\ Len(mn.calls) <= 1
                    /\ mn.exit = 0 <=> Len(mn.calls) = 1
               ELSE /\ mn.path = "usage"
                    /\ mn.printed = <<Printed("stderr", "usage", <<>>)>>
                    /\ mn.calls = <<>>
                    /\ mn.exit = 1
            /\ mn.path # "stdin" => sc = IdleScanner
            /\ (mn.repeat \/ Len(mn.parsers) > 0) =>
                   mn.path = sio_main(a, mn.isTerminal,
                                      IF mn.repeat THEN 0 ELSE Len(mn.parsers))

\* One argument for two parsers: the usage message on standard error.
C17_Witness ==
    /\ Exited
    /\ mn.parsers = <<IntParser, IntParser>> /\ ~mn.repeat
    /\ mn.args = << <<49>> >>
    /\ mn.path = "usage"
    /\ mn.printed = <<Printed("stderr", "usage", <<>>)>>
    /\ mn.exit = 1

\* "--help" where one argument is expected: the usage message on standard
\* output, and no call.
C17_WitnessHelp ==
    /\ Exited
    /\ mn.parsers = <<IntParser>> /\ ~mn.repeat
    /\ mn.args = <<DashDashHelp>>
    /\ mn.path = "help"
    /\ mn.calls = <<>>

\* No argument and a piped standard input: the lines are read.
C17_WitnessPiped ==
    /\ Exited
    /\ mn.args = <<>> /\ ~mn.isTerminal
    /\ mn.path = "stdin"
    /\ Len(mn.calls) = 2

----------------------------------------------------------------------------
(* Termination of the line scan, checked under SpecScanFair *)

\* The number of newline bytes of s.
Newlines(s) == Cardinality({k \in 1..Len(s) : s[k] = NL})

\* C18: on every finite stream that reaches end-of-stream the line scan
\* terminates: Scan returns false after finitely many lines, and the number of
\* lines is at most the number of newline bytes of the stream plus one.
C18_LineScanTerminates ==
    /\ <>ScanDone
    /\ [](Len(sc.lines) <= Newlines(stream) + 1)
    /\ [](ScanDone => sc.rest = <<>> /\ sc.eof)

\* Three newlines, one of them quoted: two lines, and the scan is over.
C18_Witness ==
    /\ ScanDone
    /\ stream = <<NL, SQ, NL, SQ, NL>>
    /\ Len(sc.lines) = 2
    /\ Newlines(stream) = 3

\* No newline at all: the one line at the end of the stream.
C18_WitnessNoNewline ==
    /\ ScanDone
    /\ stream = <<120, 120>>
    /\ sc.lines = << <<120, 120>> >>

----------------------------------------------------------------------------
(* Round trip and capacity of tokenize, checked under SpecTokenize *)

\* No quote, backslash or whitespace byte in s.
Plain(s) == \A k \in 1..Len(s) : s[k] \notin {SQ, DQ, BS} /\ ~IsSpace(s[k])

\* The strings of list joined by single spaces.
RECURSIVE JoinBySpace(_)
JoinBySpace(list) ==
    IF list = <<>> THEN <<>>
    ELSE IF Len(list) = 1 THEN list[1]
    ELSE list[1] \o <<SP>> \o JoinBySpace(Tail(list))

\* C19 as stated: for every token list that tokenize returns and whose members
\* contain no quote, backslash or whitespace, tokenizing the members joined by
\* single spaces returns the same list.
C19_RoundTrip ==
    Returned =>
        ((\A k \in 1..Len(Result) : Plain(Result[k]))
            => tokenize(JoinBySpace(Result)) = Result)

\* C19, amended: the same for the lists whose members are moreover not empty.
\* An empty token, which only a quoted empty region produces, leaves no byte
\* in the joined line and cannot come back.
C19_RoundTripOfNonEmptyTokens ==
    Returned =>
        ((\A k \in 1..Len(Result) : Plain(Result[k]) /\ Result[k] # <<>>)
            => tokenize(JoinBySpace(Result)) = Result)

\* 'a' b gives the tokens a and b, and "a b" gives them again.
C19_Witness ==
    /\ Returned
    /\ input = <<SQ, 97, SQ, SP, 98>>
    /\ Result = << <<97>>, <<98>> >>
    /\ JoinBySpace(Result) = <<97, SP, 98>>
    /\ tokenize(JoinBySpace(Result)) = Result

\* C20: the number of tokens tokenize produces never exceeds countMaxTokens of
\* the line as it was passed in, so no append to the token list goes beyond
\* the capacity allocated for it.
C20_TokensWithinCapacity ==
    /\ tz.pc # "panic"
    /\ Len(tz.tokens) <= countMaxTokens(input)
    /\ Returned => Len(Result) <= countMaxTokens(input)

\* A backslash joins two words into one token: fewer tokens than the
\* capacity.
C20_Witness ==
    /\ Returned
    /\ input = <<97, BS, SP, 98>>
    /\ countMaxTokens(input) = 2
    /\ Len(Result) = 1

\* Two plain words: the capacity is used up.
C20_WitnessFull ==
    /\ Returned
    /\ input = <<97, SP, 98, SP, SP>>
    /\ countMaxTokens(input) = 2
    /\ Len(Result) = 2

----------------------------------------------------------------------------
(* Continuation lines and the chunks of the source, checked under SpecScan *)

\* The newlines of s that end a maximal run of an odd number of backslashes,
\* and the positions a continuation removes: each such newline and the one
\* backslash immediately before it.
ContinuationNewlines(s) ==
    {k \in 1..Len(s) : s[k] = NL /\ BackslashRun(s, k - 1) % 2 = 1}
ContinuationPairs(s) ==
    {k \in 1..Len(s) : k \in ContinuationNewlines(s)
                          \/ k + 1 \in ContinuationNewlines(s)}

\* C21: a newline preceded by a maximal run of k backslashes is joined away
\* exactly when k is odd, and then only the newline and the backslash
\* immediately before it are dropped; for even k the newline and all k
\* backslashes stay; a backslash not immediately followed by a newline, a lone
\* one at the end of the stream included, is never removed. Stated for what
\* the scanner has been handed once the stream is read, and for the lines of
\* simple_fgetline.
C21_JoinsIffBackslashRunIsOdd ==
    /\ (mode = "scan" /\ sc.rest = <<>>) =>
           sc.fed = Pick(stream, (1..Len(stream)) \ ContinuationPairs(stream))
    /\ mode = "scan" =>
           Flatten(fgetlineAll(stream))
               = Pick(stream, (1..Len(stream)) \ ContinuationPairs(stream))

\* The lines the scanner returns for a stream that the source hands over in a
\* single Read.
RECURSIVE SplitAll(_)
SplitAll(data) ==
    LET r == scanLines(data, TRUE)
    IN  IF r.some
        THEN <<r.token>> \o SplitAll(SubSeq(data, r.advance + 1, Len(data)))
        ELSE <<>>
LinesOfOneRead(s) == SplitAll(lineReaderRead(s))

\* C22: the lines produced from a stream depend only on its bytes, not on how
\* the source splits them across Read calls: every chunking gives the lines
\* that a single Read of the whole stream gives; a backslash that ends one
\* Read and a newline that begins the next are treated as when they arrive
\* together, and the parity of a backslash run is carried across Reads.
C22_LinesIndependentOfChunking ==
    ScanDone => sc.lines = LinesOfOneRead(stream)

----------------------------------------------------------------------------
(* In-place deletion in tokenize and split_words *)

\* Byte k of the line is a character of the output: it is escaped, or it is
\* neither a backslash nor a quote that opens or closes a region.
KeptAt(s, k) ==
    \/ EscapedAt(s, k)
    \/ s[k] # BS /\ QuoteAfter(s, k) = QuoteBefore(s, k)

\* The last byte of the field that starts at f.
FieldEnd(s, f) ==
    CHOOSE m \in f..Len(s) :
        /\ \A j \in f..m : ~Delimits(s, j)
        /\ m = Len(s) \/ Delimits(s, m + 1)

\* The decoded characters of the n-th field, as a forward scan that appends
\* every kept byte to a fresh buffer collects them.
DecodedField(s, n) ==
    LET f == NthOf(FieldStarts(s), n)
    IN  Pick(s, {k \in f..FieldEnd(s, f) : KeptAt(s, k)})
DecodedFields(s) ==
    [n \in 1..Cardinality(FieldStarts(s)) |-> DecodedField(s, n)]

\* C23: deleting in place is safe. The write index i - shift never exceeds
\* the read index, never decreases, and never lies inside the byte range of a
\* token already appended; a token, once appended, keeps its indices and its
\* bytes through every later iteration and holds the decoded characters of its
\* field; at return the token slices are exactly what a forward scan into a
\* fresh buffer gives, and so are the words of split_words.
C23_InPlaceDeletionIsSafe ==
    /\ [][ /\ Reads =>
               /\ tz.i - tz.shift <= tz.i
               /\ tz'.i - tz'.shift <= tz'.i
               /\ tz.i - tz.shift <= tz'.i - tz'.shift
               /\ \A n \in 1..Len(tz.tokens) :
                      /\ ~(tz.tokens[n].lo <= tz.i - tz.shift
                             /\ tz.i - tz.shift < tz.tokens[n].hi)
                      /\ tz'.tokens[n] = tz.tokens[n]
                      /\ TokenStrings(tz')[n] = TokenStrings(tz)[n]
           /\ tz'.pc = "done" =>
               /\ \A n \in 1..Len(tz.tokens) :
                      /\ tz'.tokens[n] = tz.tokens[n]
                      /\ TokenStrings(tz')[n] = TokenStrings(tz)[n]
               /\ TokenStrings(tz') = DecodedFields(input)
         ]_vars
    /\ [](tz.pc \in {"loop", "done"} =>
             /\ Len(tz.tokens) <= Cardinality(FieldStarts(input))
             /\ \A n \in 1..Len(tz.tokens) :
                    TokenStrings(tz)[n] = DecodedField(input, n))
    /\ [](Returned /\ (\A k \in 1..Len(input) : IsSpace(input[k]) <=> isspace(input[k]))
             => split_words(input) = DecodedFields(input))

\* A returned line in which two quotes were deleted after the first token
\* had been appended, so that the second token was written over earlier bytes.
C23_Witness ==
    /\ Returned
    /\ input = <<97, SP, SQ, 98, SQ>>
    /\ Result = << <<97>>, <<98>> >>
    /\ tz.shift = 2
    /\ tz.tokens[1] = [lo |-> 0, hi |-> 1]

----------------------------------------------------------------------------
(* tokenize and split_words side by side *)

\* C isspace and unicode.IsSpace agree on every byte of s, and s has no NUL.
SameWhitespace(s) ==
    \A k \in 1..Len(s) : s[k] # 0 /\ (IsSpace(s[k]) <=> isspace(s[k]))

\* C24: on every line without a NUL byte whose bytes C isspace and
\* unicode.IsSpace classify alike, split_words and tokenize return the same
\* number of tokens with the same contents in the same order; escaped escapes,
\* empty quoted regions, unterminated quotes and a trailing backslash
\* included.
C24_SplitWordsEqualsTokenize ==
    /\ Returned /\ SameWhitespace(input) => Result = split_words(input)
    /\ Returned /\ input = <<BS, BS, SP, SQ, SQ>> =>
           split_words(input) = << <<BS>>, <<>> >>
    /\ Returned /\ input = <<97, SP, DQ, 98, BS>> =>
           split_words(input) = << <<97>>, <<98>> >>

\* Escaped escape and empty quoted region.
C24_Witness ==
    /\ Returned
    /\ input = <<BS, BS, SP, SQ, SQ>>
    /\ Result = << <<BS>>, <<>> >>

\* Unterminated quote and trailing backslash.
C24_WitnessUnterminated ==
    /\ Returned
    /\ input = <<97, SP, DQ, 98, BS>>
    /\ Result = << <<97>>, <<98>> >>
    /\ tz.quote = DQ

----------------------------------------------------------------------------
(* apply, checked under SpecMain on the command-line path of Main *)

\* The arguments of the command line whose parser reports an error.
FailingArguments ==
    {k \in 1..Len(mn.args) :
        ParserFails(IF mn.repeat THEN mn.parsers[1] ELSE mn.parsers[k], mn.args[k])}

\* C25: apply runs the parser of every argument, also after an earlier one
\* has failed, and logs one error per failing argument; it calls fn exactly
\* once, with all parsed values, if and only if no argument failed, and it
\* returns true exactly when it called fn. Stated for the call apply(fn, args)
\* that Main makes on the command line: once it is over, there is one logged
\* line per failing argument, one call of fn if none failed and none
\* otherwise, and the exit status is 0 exactly when fn was called.
C25_ApplyParsesAllAndCallsOnce ==
    (mode = "main" /\ mn.path = "args") =>
        /\ mn.pc = "exited"
        /\ Len(mn.printed) = Cardinality(FailingArguments)
        /\ \A n \in 1..Len(mn.printed) :
               mn.printed[n].arg = mn.args[NthOf(FailingArguments, n)]
        /\ Len(mn.calls) = (IF FailingArguments = {} THEN 1 ELSE 0)
        /\ mn.calls # <<>> => Len(mn.calls[1]) = Len(mn.args)
        /\ mn.exit = 0 <=> Len(mn.calls) = 1

----------------------------------------------------------------------------
(* The buffer of simple_fgetline, checked under SpecFgetline *)

\* C26: simple_fgetline never writes outside its line buffer: every store of
\* a character and the final store of the terminating NUL is at an index
\* strictly below the size the buffer has at that store, the buffer having
\* been enlarged beforehand whenever the line would not fit, a line as long
\* as the buffer included.
C26_StoresStayInsideBuffer ==
    mode = "fgetline" =>
        /\ fg.stored < fg.cap
        /\ fg.pc # "crashed"

\* C27: when *lineptr is NULL the value of *size has no influence on the
\* call: whatever it holds (0, 1, what the uninitialised bufsize of
\* foreach_line happens to hold), no assertion fails and the line is stored
\* in a fresh buffer of block_size bytes.
C27_SizeIgnoredWithoutBuffer ==
    (mode = "fgetline" /\ fg.arg.lineptr = "NULL") =>
        /\ fg.pc # "aborted"
        /\ (fg.pc = "loop" /\ fg.stored = -1) => fg.bufsize = block_size

====
